---- MODULE Spec2Model ----
(***************************************************************************)
(* Model of the gold-price plugin (src/main.py): the fetch of the feed     *)
(* (GoldPrice.fetch_data), the numeric-sign formatting of the percentage   *)
(* change (GoldPrice._format_change) and the command handler               *)
(* (GoldPrice.gold_price).                                                 *)
(*                                                                         *)
(* JSON values are tagged records: [t |-> "null"], [t |-> "bool", b],      *)
(* [t |-> "num", n], [t |-> "str", s], [t |-> "list", l], [t |-> "obj", o] *)
(* where o is a function whose DOMAIN is the set of keys present.          *)
(* Python strings that the code parses or splits are sequences of          *)
(* one-character strings; the other strings are TLA+ strings.  Literal     *)
(* message texts are written in ASCII.                                     *)
(***************************************************************************)
EXTENDS Integers, Sequences, FiniteSets, TLC

\* ------------------------------------------------------------------ bounds
NumInv == 2
MaxStr == 3
MaxList == 2
MaxEntries == 6
MaxLong == 8

\* ------------------------------------------------------- program constants
TIMEOUT == 15
TOP_N == 5
HTTP_OK == 200

WAIT_MSG == "fetching gold prices..."
NETWORK_ERR == "cannot connect to the gold data source, retry later"
FORMAT_ERR == "data format abnormal, contact the administrator"
REMOTE_ERR == "fetching data failed: "
UNKNOWN_ERROR == "unknown error"
PARSE_ERR == "data parsing failed, retry later"
NO_DATA_MSG == "no gold quotes at the moment"
HEADER == "[real-time gold price TOP5]"
UNKNOWN_TIME == "unknown time"
SYSTEM_ERR == "the system hiccuped, retry later"
UP_MARK == "up"
DOWN_MARK == "down"
FLAT_MARK == "flat"

\* ------------------------------------------------------------ JSON values
JNull == [t |-> "null"]
JBool(b) == [t |-> "bool", b |-> b]
JNum(n) == [t |-> "num", n |-> n]
JStr(s) == [t |-> "str", s |-> s]
JList(l) == [t |-> "list", l |-> l]
JObj(o) == [t |-> "obj", o |-> o]

\* Python's None is what resp.json() returns for the JSON value null.
None == JNull

\* bool(data), as `if not data` evaluates it
Truthy(j) ==
  CASE j.t = "null" -> FALSE
    [] j.t = "bool" -> j.b
    [] j.t = "num" -> j.n # 0
    [] j.t = "str" -> Len(j.s) > 0
    [] j.t = "list" -> Len(j.l) > 0
    [] j.t = "obj" -> DOMAIN j.o # {}

\* str(x) of a JSON value inside an f-string; strings here are TLA+ strings
PyStr(j) ==
  CASE j.t = "null" -> "None"
    [] j.t = "bool" -> IF j.b THEN "True" ELSE "False"
    [] j.t = "num" -> ToString(j.n)
    [] j.t = "str" -> j.s
    [] OTHER -> "<object>"

\* ------------------------------------------------------ character strings
Digits == {"0", "1"}
Signs == {"+", "-"}
Chars == Digits \cup Signs \cup {".", "n", "a"}

RECURSIVE StrsUpTo(_)
StrsUpTo(n) ==
  IF n = 0 THEN {<<>>}
  ELSE LET P == StrsUpTo(n - 1)
       IN P \cup {Append(s, c) : s \in {q \in P : Len(q) = n - 1}, c \in Chars}

DigitVal(c) == IF c = "1" THEN 1 ELSE 0

RECURSIVE Mantissa(_)
\* the integer spelled by the digits of s, the point dropped
Mantissa(s) ==
  IF s = <<>> THEN 0
  ELSE LET r == Mantissa(SubSeq(s, 1, Len(s) - 1))
           c == s[Len(s)]
       IN IF c = "." THEN r ELSE 10 * r + DigitVal(c)

\* digits, at most one point, at least one digit
IsDecimal(s) ==
  /\ \A k \in 1..Len(s) : s[k] \in Digits \cup {"."}
  /\ Cardinality({k \in 1..Len(s) : s[k] = "."}) <= 1
  /\ \E k \in 1..Len(s) : s[k] \in Digits

Unsigned(s) == IF s # <<>> /\ s[1] \in Signs THEN Tail(s) ELSE s
IsNegative(s) == s # <<>> /\ s[1] = "-"

\* float(change): the float, or the ValueError it raises.  A float is
\* [nan, num]: not-a-number, or the signed mantissa (its sign and its being
\* zero are those of the value).
PyFloat(s) ==
  LET u == Unsigned(s)
  IN IF u = <<"n", "a", "n">>
       THEN [exc |-> "none", nan |-> TRUE, num |-> 0]
     ELSE IF IsDecimal(u)
       THEN [exc |-> "none", nan |-> FALSE,
             num |-> IF IsNegative(s) THEN 0 - Mantissa(u) ELSE Mantissa(u)]
     ELSE [exc |-> "ValueError", nan |-> FALSE, num |-> 0]

\* change_val > 0 and change_val < 0: every comparison with NaN is False
FloatGt0(f) == ~f.nan /\ f.num > 0
FloatLt0(f) == ~f.nan /\ f.num < 0

_format_change(change) ==
  LET f == PyFloat(change)
  IN IF f.exc # "none" THEN change
     ELSE IF FloatGt0(f) THEN <<UP_MARK, " ", "+">> \o change \o <<"%">>
     ELSE IF FloatLt0(f) THEN <<DOWN_MARK, " ">> \o change \o <<"%">>
     ELSE <<FLAT_MARK, " ">> \o change \o <<"%">>

\* --------------------------------------------------------- Python helpers
MinOf(S) == CHOOSE m \in S : \A k \in S : m <= k

\* s[-n:], the last n instead of the first n
SliceLast(s, n) == SubSeq(s, IF Len(s) < n THEN 1 ELSE Len(s) - n + 1, Len(s))

\* s[:n]
Slice(s, n) == SubSeq(s, 1, IF Len(s) < n THEN Len(s) ELSE n)

\* s.split('.')[0]
SplitDot(s) ==
  LET ks == {k \in 1..Len(s) : s[k] = "."}
  IN IF ks = {} THEN s ELSE SubSeq(s, 1, MinOf(ks) - 1)

\* sub occurs in s as a contiguous run
IsSubSeq(sub, s) ==
  \E k \in 0..Len(s) :
    /\ k + Len(sub) <= Len(s)
    /\ \A m \in 1..Len(sub) : s[k + m] = sub[m]

KeyChars(key) ==
  IF key = "code" THEN <<"c", "o", "d", "e">> ELSE <<"d", "a", "t", "a">>

\* `key in data` for a dict, a list or a str; int, bool and None raise TypeError
PyIn(key, j) ==
  CASE j.t = "obj" -> key \in DOMAIN j.o
    [] j.t = "list" -> \E k \in 1..Len(j.l) : j.l[k] = [t |-> "str", s |-> KeyChars(key)]
    [] j.t = "str" -> IsSubSeq(KeyChars(key), j.s)
    [] OTHER -> FALSE

RECURSIVE JoinNL(_)
\* "\n".join(msg)
JoinNL(msg) ==
  IF msg = <<>> THEN <<>>
  ELSE IF Len(msg) = 1 THEN msg[1]
  ELSE msg[1] \o <<"\n">> \o JoinNL(Tail(msg))

\* ---------------------------------------------------------- CommandResult
Message(text) == [kind |-> "message", text |-> text]
Error(text) == [kind |-> "error", text |-> text]

\* ------------------------------------------------------ gold_price, 87-113
ItemFields == {"title", "price", "changepercent", "maxprice", "minprice"}

\* the f-string of lines 98-102, or the exception its subscripts raise
RenderItem(item) ==
  IF item.t # "obj" THEN [exc |-> "TypeError", block |-> <<>>]
  ELSE IF ~(ItemFields \subseteq DOMAIN item.o) THEN [exc |-> "KeyError", block |-> <<>>]
  ELSE [exc |-> "none",
        block |-> <<"*", item.o.title, "\n", "price:", item.o.price, "\n", "change:">>
                  \o _format_change(item.o.changepercent)
                  \o <<"\n", "high:", item.o.maxprice, "low:", item.o.minprice, "\n", "----">>]

RECURSIVE BuildMsg(_, _)
\* the loop of lines 95-106: KeyError skips the item, any other exception
\* leaves the loop
BuildMsg(gold_list, msg) ==
  IF gold_list = <<>> THEN [exc |-> "none", msg |-> msg]
  ELSE LET r == RenderItem(Head(gold_list))
       IN IF r.exc = "KeyError" THEN BuildMsg(Tail(gold_list), msg)
          ELSE IF r.exc # "none" THEN [exc |-> r.exc, msg |-> msg]
          ELSE BuildMsg(Tail(gold_list), Append(msg, r.block))

\* line 109
Timestamp(o) ==
  IF "time" \in DOMAIN o
    THEN IF o.time.t = "str" THEN [exc |-> "none", ts |-> SplitDot(o.time.s)]
         ELSE [exc |-> "AttributeError", ts |-> <<>>]
    ELSE [exc |-> "none", ts |-> <<UNKNOWN_TIME>>]

\* Render without the test of line 89
RenderAlways(o) ==
  LET b == BuildMsg(Slice(o.data.l, TOP_N), <<<<HEADER>>>>)
      t == Timestamp(o)
  IN IF b.exc # "none" THEN [exc |-> b.exc, yields |-> <<>>]
     ELSE IF t.exc # "none" THEN [exc |-> t.exc, yields |-> <<>>]
     ELSE [exc |-> "none",
           yields |-> <<Message(JoinNL(Append(b.msg, <<"updated:">> \o t.ts)))>>]

\* lines 87-113 for a dict with code 200 and a list under data
Render(o) ==
  LET gold_list == Slice(o.data.l, TOP_N)
  IN IF gold_list = <<>>
       THEN [exc |-> "none", yields |-> <<Message(<<NO_DATA_MSG>>)>>]
     ELSE LET b == BuildMsg(gold_list, <<<<HEADER>>>>)
              t == Timestamp(o)
          IN IF b.exc # "none" THEN [exc |-> b.exc, yields |-> <<>>]
             ELSE IF t.exc # "none" THEN [exc |-> t.exc, yields |-> <<>>]
             ELSE [exc |-> "none",
                   yields |-> <<Message(JoinNL(Append(b.msg, <<"updated:">> \o t.ts)))>>]

\* ------------------------------------------------------ gold_price, 64-85
\* what the body of the try yields after the fetch, and the exception that
\* ends it, if any
Body(data) ==
  IF ~Truthy(data)
    THEN [exc |-> "none", yields |-> <<Error(<<NETWORK_ERR>>)>>]
  ELSE IF data.t \in {"null", "bool", "num"}
    THEN [exc |-> "TypeError", yields |-> <<>>]
  ELSE IF ~PyIn("code", data) \/ ~PyIn("data", data)
    THEN IF data.t = "obj"
           THEN [exc |-> "none", yields |-> <<Error(<<FORMAT_ERR>>)>>]
           ELSE [exc |-> "AttributeError", yields |-> <<>>]
  ELSE IF data.t # "obj"
    THEN [exc |-> "TypeError", yields |-> <<>>]
  ELSE IF data.o.code # [t |-> "num", n |-> HTTP_OK]
    THEN [exc |-> "none",
          yields |-> <<Error(<<REMOTE_ERR,
                               IF "msg" \in DOMAIN data.o THEN PyStr(data.o.msg)
                               ELSE UNKNOWN_ERROR>>)>>]
  ELSE IF data.o.data.t # "list"
    THEN [exc |-> "none", yields |-> <<Error(<<PARSE_ERR>>)>>]
  ELSE Render(data.o)

\* the exceptions that `except Exception` catches; CancelledError is none
ExceptionSubclasses == {"TypeError", "AttributeError", "KeyError", "ValueError"}

\* gold_price without the handler of line 115
gold_price_unhandled(data) ==
  LET b == Body(data)
  IN [exc |-> b.exc, yields |-> b.yields]

\* lines 59-117 after the first yield: the body, and the handler of line 115
\* for the exceptions it raises; exc is the exception that leaves the handler
gold_price(data) ==
  LET b == Body(data)
  IN IF b.exc = "none" THEN [exc |-> "none", yields |-> b.yields]
     ELSE IF b.exc \in ExceptionSubclasses
       THEN [exc |-> "none", yields |-> Append(b.yields, Error(<<SYSTEM_ERR>>))]
     ELSE [exc |-> b.exc, yields |-> b.yields]

\* ------------------------------------------------- the feeds of the remote
ABSENT == [t |-> "absent"]

TopKeys == {"code", "msg", "data", "time", "api_source"}

\* the object with the keys whose value is not ABSENT
ObjOf(c, m, d, ti, a) ==
  LET val == [k \in TopKeys |->
                CASE k = "code" -> c [] k = "msg" -> m [] k = "data" -> d
                  [] k = "time" -> ti [] OTHER -> a]
  IN JObj([k \in {x \in TopKeys : val[x] # ABSENT} |-> val[k]])

Titles == <<"t1", "t2", "t3", "t4", "t5", "t6", "t7", "t8", "t9", "t10">>
Changes == <<<<"1", ".", "1">>, <<"-", "1", ".", "1">>, <<"0">>, <<"n", "a">>>>

Quote(title, change) ==
  [title |-> title, price |-> "480.5", changepercent |-> change,
   maxprice |-> "482", minprice |-> "478"]

\* the well-formed entry at position k of a feed
Good(k) == JObj(Quote(Titles[k], Changes[((k - 1) % Len(Changes)) + 1]))

\* the entry at position k without the field f
Lacking(k, f) == JObj([x \in ItemFields \ {f} |-> Good(k).o[x]])

BadKinds == ItemFields \cup {"null", "str"}
Bad(k, b) ==
  CASE b = "null" -> JNull
    [] b = "str" -> JStr(<<"a">>)
    [] OTHER -> Lacking(k, b)

\* the lists of at most n entries in which the entries at some positions are
\* bad, all in the same way
DataLists(n, kinds) ==
  {JList([k \in 1..len |-> IF k \in bad THEN Bad(k, b) ELSE Good(k)]) :
     len \in 0..n, bad \in SUBSET (1..n), b \in kinds}

Times == {ABSENT, JStr(<<"1", "0", ".", "1">>), JStr(<<"1", "1">>), JNum(0)}

NonObjects ==
  {JNull, JBool(FALSE), JBool(TRUE), JNum(0), JNum(5), JStr(<<>>), JStr(<<"a">>),
   JList(<<>>), JList(<<JNum(1)>>), JList(<<JStr(KeyChars("code")), JStr(KeyChars("data"))>>)}

FeedsShape ==
  NonObjects \cup
  {ObjOf(c, m, d, ti, a) :
     c \in {ABSENT, JNum(HTTP_OK), JNum(500), JStr(<<"2", "0", "0">>)},
     m \in {ABSENT, JStr("upstream down")},
     d \in {ABSENT, JNull, JStr(<<"a">>)} \cup DataLists(MaxList, {"title", "null"}),
     ti \in {ABSENT, JStr(<<"1", "0", ".", "1">>), JNum(0)},
     a \in {ABSENT, JStr("x")}}

FeedsEntries ==
  {ObjOf(JNum(HTTP_OK), ABSENT, d, ti, ABSENT) :
     d \in DataLists(MaxEntries, BadKinds), ti \in Times}

FeedsLong ==
  {ObjOf(JNum(HTTP_OK), ABSENT, d, ti, ABSENT) :
     d \in {JList([k \in 1..len |-> Good(k)]) : len \in 0..MaxLong},
     ti \in Times}

FeedsChange ==
  {ObjOf(JNum(HTTP_OK), JStr(""), JList(<<JObj(Quote("AU9999", s))>>), ABSENT, ABSENT) :
     s \in StrsUpTo(MaxStr)}

Feeds == FeedsShape \cup FeedsEntries \cup FeedsLong \cup FeedsChange

FeedsConc ==
  {ObjOf(JNum(HTTP_OK), ABSENT, JList(<<Good(1), Good(2)>>), ABSENT, ABSENT),
   ObjOf(JNum(500), JStr("upstream down"), JList(<<>>), ABSENT, ABSENT)}

\* ------------------------------------------------------------------ state
Inv == 1..NumInv

VARIABLES
  pending,   \* commands the host has still to dispatch
  feed,      \* the JSON document the remote serves
  pc,        \* where each invocation of gold_price is
  out,       \* the CommandResults each invocation has yielded
  escaped,   \* the exception that left the handler, "none" if none
  session,   \* the aiohttp.ClientSession of each invocation
  opened,    \* sessions each invocation has opened
  gets,      \* GET requests each invocation has issued
  resp,      \* the response of the request
  elapsed,   \* seconds since the request was issued
  outcome,   \* how fetch_data ended
  data       \* what fetch_data returned

vars == <<pending, feed, pc, out, escaped, session, opened, gets, resp, elapsed,
          outcome, data>>

NoResp == [state |-> "none", status |-> 0, body |-> "none"]

InitInv ==
  /\ pc = [i \in Inv |-> "idle"]
  /\ out = [i \in Inv |-> <<>>]
  /\ escaped = [i \in Inv |-> "none"]
  /\ session = [i \in Inv |-> "none"]
  /\ opened = [i \in Inv |-> 0]
  /\ gets = [i \in Inv |-> 0]
  /\ resp = [i \in Inv |-> NoResp]
  /\ elapsed = [i \in Inv |-> 0]
  /\ outcome = [i \in Inv |-> "none"]
  /\ data = [i \in Inv |-> None]

\* one command, any feed
Init == pending = 1 /\ feed \in Feeds /\ InitInv

\* one command, a feed of FeedsConc
InitFair == pending = 1 /\ feed \in FeedsConc /\ InitInv

\* several commands at once
InitConc == pending = NumInv /\ feed \in FeedsConc /\ InitInv

\* ---------------------------------------------------------------- actions
Awaiting(i) == pc[i] \in {"await_resp", "await_text"}

\* the host runs the handler of one more "gold" command
Dispatch(i) ==
  /\ pending > 0
  /\ pc[i] = "idle"
  /\ pending' = pending - 1
  /\ pc' = [pc EXCEPT ![i] = "start"]
  /\ UNCHANGED <<feed, out, escaped, session, opened, gets, resp, elapsed, outcome, data>>

\* line 61
YieldWait(i) ==
  /\ pc[i] = "start"
  /\ out' = [out EXCEPT ![i] = Append(@, Message(<<WAIT_MSG>>))]
  /\ pc' = [pc EXCEPT ![i] = "call_fetch"]
  /\ UNCHANGED <<pending, feed, escaped, session, opened, gets, resp, elapsed, outcome, data>>

\* line 21
OpenSession(i) ==
  /\ pc[i] = "call_fetch"
  /\ session' = [session EXCEPT ![i] = "open"]
  /\ opened' = [opened EXCEPT ![i] = @ + 1]
  /\ pc' = [pc EXCEPT ![i] = "get"]
  /\ UNCHANGED <<pending, feed, out, escaped, gets, resp, elapsed, outcome, data>>

\* line 22: the request is issued and the total timeout starts
SendGet(i) ==
  /\ pc[i] = "get"
  /\ gets' = [gets EXCEPT ![i] = @ + 1]
  /\ elapsed' = [elapsed EXCEPT ![i] = 0]
  /\ pc' = [pc EXCEPT ![i] = "await_resp"]
  /\ UNCHANGED <<pending, feed, out, escaped, session, opened, resp, outcome, data>>

\* a second passes while the request is in flight
Tick(i) ==
  /\ Awaiting(i)
  /\ elapsed[i] < TIMEOUT
  /\ elapsed' = [elapsed EXCEPT ![i] = @ + 1]
  /\ UNCHANGED <<pending, feed, pc, out, escaped, session, opened, gets, resp, outcome, data>>

\* line 22: the status line and headers arrive
RecvHeaders(i) ==
  /\ pc[i] = "await_resp"
  /\ elapsed[i] < TIMEOUT
  /\ \E st \in {HTTP_OK, 500} :
       resp' = [resp EXCEPT ![i] = [state |-> "open", status |-> st, body |-> "none"]]
  /\ pc' = [pc EXCEPT ![i] = "await_text"]
  /\ UNCHANGED <<pending, feed, out, escaped, session, opened, gets, elapsed, outcome, data>>

\* line 23: the body arrives; it is the feed, or text that is not JSON, or
\* the feed under a content type that is not JSON
RecvBody(i) ==
  /\ pc[i] = "await_text"
  /\ elapsed[i] < TIMEOUT
  /\ \E b \in {"json", "garbage", "wrong_type"} :
       resp' = [resp EXCEPT ![i].body = b]
  /\ elapsed' = [elapsed EXCEPT ![i] = 0]
  /\ pc' = [pc EXCEPT ![i] = "check_status"]
  /\ UNCHANGED <<pending, feed, out, escaped, session, opened, gets, outcome, data>>

\* fetch_data that closes the session on the successful path only
FetchReturnsLeak(i, how, value) ==
  /\ resp' = [resp EXCEPT ![i].state = IF @ = "open" /\ how = "ok" THEN "released" ELSE @]
  /\ session' = [session EXCEPT ![i] = IF how = "ok" THEN "closed" ELSE @]
  /\ elapsed' = [elapsed EXCEPT ![i] = 0]
  /\ outcome' = [outcome EXCEPT ![i] = how]
  /\ data' = [data EXCEPT ![i] = value]
  /\ pc' = [pc EXCEPT ![i] = "fetched"]
  /\ UNCHANGED <<pending, feed, out, escaped, opened, gets>>

\* fetch_data ends: both `async with` blocks are left, which releases the
\* response and closes the session, and the value is returned
FetchReturns(i, how, value) ==
  /\ resp' = [resp EXCEPT ![i].state = IF @ = "open" THEN "released" ELSE @]
  /\ session' = [session EXCEPT ![i] = "closed"]
  /\ elapsed' = [elapsed EXCEPT ![i] = 0]
  /\ outcome' = [outcome EXCEPT ![i] = how]
  /\ data' = [data EXCEPT ![i] = value]
  /\ pc' = [pc EXCEPT ![i] = "fetched"]
  /\ UNCHANGED <<pending, feed, out, escaped, opened, gets>>

\* lines 26-34; resp.json() raises ContentTypeError, a ClientError, for a
\* content type that is not JSON (lines 36-38)
CheckAndParse(i) ==
  /\ pc[i] = "check_status"
  /\ IF resp[i].status # HTTP_OK THEN FetchReturns(i, "http", None)
     ELSE IF resp[i].body = "garbage" THEN FetchReturns(i, "decode", None)
     ELSE IF resp[i].body = "wrong_type" THEN FetchReturns(i, "client", None)
     ELSE FetchReturns(i, "ok", feed)

\* lines 36-38: the connection is refused, reset or lost
ClientErr(i) ==
  /\ Awaiting(i)
  /\ elapsed[i] < TIMEOUT
  /\ FetchReturns(i, "client", None)

\* the timeout without lines 39-41: the TimeoutError leaves fetch_data and
\* reaches the handler of line 115
TimeoutUncaught(i) ==
  /\ Awaiting(i)
  /\ elapsed[i] = TIMEOUT
  /\ resp' = [resp EXCEPT ![i].state = IF @ = "open" THEN "released" ELSE @]
  /\ session' = [session EXCEPT ![i] = "closed"]
  /\ elapsed' = [elapsed EXCEPT ![i] = 0]
  /\ outcome' = [outcome EXCEPT ![i] = "timeout"]
  /\ out' = [out EXCEPT ![i] = Append(@, Error(<<SYSTEM_ERR>>))]
  /\ pc' = [pc EXCEPT ![i] = "done"]
  /\ UNCHANGED <<pending, feed, escaped, opened, gets, data>>

\* line 16 and lines 39-41: the total timeout expires
Timeout(i) ==
  /\ Awaiting(i)
  /\ elapsed[i] = TIMEOUT
  /\ FetchReturns(i, "timeout", None)

\* lines 39-41: any other exception, as of resp.text() on a body that cannot
\* be decoded as text
OtherExc(i) ==
  /\ pc[i] = "await_text"
  /\ elapsed[i] < TIMEOUT
  /\ FetchReturns(i, "other", None)

\* the host cancels the task while it waits for the network: CancelledError
\* is no Exception, so lines 36-41 and line 115 let it pass
Cancel(i) ==
  /\ Awaiting(i)
  /\ elapsed[i] < TIMEOUT
  /\ resp' = [resp EXCEPT ![i].state = IF @ = "open" THEN "released" ELSE @]
  /\ session' = [session EXCEPT ![i] = "closed"]
  /\ elapsed' = [elapsed EXCEPT ![i] = 0]
  /\ outcome' = [outcome EXCEPT ![i] = "cancel"]
  /\ escaped' = [escaped EXCEPT ![i] = "CancelledError"]
  /\ pc' = [pc EXCEPT ![i] = "cancelled"]
  /\ UNCHANGED <<pending, feed, out, opened, gets, data>>

\* lines 65-117
Format(i) ==
  /\ pc[i] = "fetched"
  /\ out' = [out EXCEPT ![i] = @ \o gold_price(data[i]).yields]
  /\ escaped' = [escaped EXCEPT ![i] = gold_price(data[i]).exc]
  /\ pc' = [pc EXCEPT ![i] = "done"]
  /\ UNCHANGED <<pending, feed, session, opened, gets, resp, elapsed, outcome, data>>

Step(i) ==
  \/ YieldWait(i)
  \/ OpenSession(i)
  \/ SendGet(i)
  \/ Tick(i)
  \/ Timeout(i)
  \/ CheckAndParse(i)
  \/ Format(i)

Next ==
  \E i \in Inv :
    \/ Dispatch(i)
    \/ YieldWait(i)
    \/ OpenSession(i)
    \/ SendGet(i)
    \/ Tick(i)
    \/ RecvHeaders(i)
    \/ RecvBody(i)
    \/ CheckAndParse(i)
    \/ ClientErr(i)
    \/ Timeout(i)
    \/ OtherExc(i)
    \/ Cancel(i)
    \/ Format(i)

Spec == Init /\ [][Next]_vars

SpecConc == InitConc /\ [][Next]_vars

\* the event loop runs every task that can run, and time passes
FairSpec == InitFair /\ [][Next]_vars /\ \A i \in Inv : WF_vars(Step(i))

TypeOK ==
  /\ pending \in 0..NumInv
  /\ \A i \in Inv :
       /\ elapsed[i] \in 0..TIMEOUT
       /\ Len(out[i]) <= 2

\* ------------------------------------------------------------- properties
Final(i) == out[i][Len(out[i])]
Wait == Message(<<WAIT_MSG>>)
FetchedOk(i) == pc[i] = "done" /\ outcome[i] = "ok"
FetchedObj(i) == FetchedOk(i) /\ data[i].t = "obj"
FetchFailed(i) == outcome[i] \in {"http", "decode", "client", "timeout", "other"}

\* code is 200 and data is a list
Usable(j) ==
  /\ j.t = "obj"
  /\ {"code", "data"} \subseteq DOMAIN j.o
  /\ j.o.code = JNum(HTTP_OK)
  /\ j.o.data.t = "list"

WellFormed(item) == item.t = "obj" /\ ItemFields \subseteq DOMAIN item.o
TimeOk(j) == "time" \notin DOMAIN j.o \/ j.o.time.t = "str"
MinNum(a, b) == IF a < b THEN a ELSE b

\* the message built from the given entries of a usable payload
Rendered(j, items) ==
  Message(JoinNL(<<<<HEADER>>>> \o [k \in 1..Len(items) |-> RenderItem(items[k]).block]
                 \o <<<<"updated:">> \o Timestamp(j.o).ts>>))

\* the titles of the entry blocks of a text, in their order
RECURSIVE TitlesIn(_)
TitlesIn(text) ==
  IF Len(text) < 2 THEN <<>>
  ELSE IF text[1] = "*" THEN <<text[2]>> \o TitlesIn(Tail(Tail(text)))
  ELSE TitlesIn(Tail(text))

RemoteMessage(j) ==
  Error(<<REMOTE_ERR, IF "msg" \in DOMAIN j.o THEN PyStr(j.o.msg) ELSE UNKNOWN_ERROR>>)
ShapeMessages == {Error(<<FORMAT_ERR>>), Error(<<PARSE_ERR>>)}
NetworkMessage == Error(<<NETWORK_ERR>>)

\* C1: whatever the fetch gives (any JSON value, a non-200 status, a body that
\* cannot be decoded, a transport failure, a timeout, any other exception), an
\* invocation of gold yields the wait notice first and then exactly one more
\* message, a result or an error, and no exception leaves the handler.
TwoMessagesNoEscape ==
  \A i \in Inv :
    /\ Len(out[i]) <= 2
    /\ Len(out[i]) >= 1 => out[i][1] = Wait
    /\ outcome[i] # "cancel" => escaped[i] = "none"
    /\ pc[i] = "done" =>
         /\ Len(out[i]) = 2
         /\ out[i][2].kind \in {"message", "error"}
         /\ out[i][2] # Wait

\* C1 witness: a JSON number was fetched, the body raised TypeError, and the
\* invocation ended with the wait notice and the error of line 117.
TwoMessagesAfterException ==
  \E i \in Inv :
    /\ FetchedOk(i)
    /\ data[i] = JNum(5)
    /\ out[i] = <<Wait, Error(<<SYSTEM_ERR>>)>>

\* C2: every fetched JSON object whose code is not 200 ends in the
\* remote-error message with its msg, or the default text when msg is absent.
RemoteErrorForNon200 ==
  \A i \in Inv :
    (FetchedObj(i) /\ "code" \in DOMAIN data[i].o /\ data[i].o.code # JNum(HTTP_OK))
      => Final(i) = RemoteMessage(data[i])

\* C3: every fetched JSON object without a data key, or whose data is not a
\* list, ends in a data-format error message.
MalformedShapeForBadData ==
  \A i \in Inv :
    (FetchedObj(i) /\ ("data" \notin DOMAIN data[i].o \/ data[i].o.data.t # "list"))
      => Final(i) \in ShapeMessages

RemoteReported(i) ==
  FetchedObj(i) /\ "code" \in DOMAIN data[i].o /\ data[i].o.code # JNum(HTTP_OK)
MalformedShape(i) ==
  /\ FetchedObj(i)
  /\ ~RemoteReported(i)
  /\ ~Usable(data[i])

\* C4: the network message is given for the failures of the fetch and for
\* nothing else, a malformed shape gives a data-format message and a code
\* other than 200 gives the remote message.
DistinctErrorPerCategory ==
  \A i \in Inv :
    pc[i] = "done" =>
      /\ FetchFailed(i) <=> Final(i) = NetworkMessage
      /\ RemoteReported(i) => Final(i) = RemoteMessage(data[i])
      /\ MalformedShape(i) => Final(i) \in ShapeMessages

\* C5: for a payload with code 200 and a list under data, no entry of the
\* first five aborts the response: the entries that lack a field are skipped,
\* the others are rendered and the final message is a result.
BadEntrySkippedNotFatal ==
  \A i \in Inv :
    (FetchedOk(i) /\ Usable(data[i]) /\ TimeOk(data[i]) /\ data[i].o.data.l # <<>>)
      => Final(i) = Rendered(data[i],
                             SelectSeq(SubSeq(data[i].o.data.l, 1,
                                              MinNum(Len(data[i].o.data.l), TOP_N)),
                                       WellFormed))

\* C6: for a usable payload of n well-formed entries the rendered message has
\* exactly min(n, 5) entry blocks, those of the first min(n, 5) entries, in
\* the order of the feed; it is rendered whenever time is absent or a string.
TruncationToFirstFive ==
  \A i \in Inv :
    (/\ FetchedOk(i)
     /\ Usable(data[i])
     /\ \A k \in 1..Len(data[i].o.data.l) : WellFormed(data[i].o.data.l[k]))
      => LET l == data[i].o.data.l
             m == MinNum(Len(l), TOP_N)
         IN /\ TimeOk(data[i]) => Final(i).kind = "message"
            /\ Final(i).kind = "message" =>
                 /\ TitlesIn(Final(i).text) = [k \in 1..m |-> l[k].o.title]
                 /\ Cardinality({k \in 1..Len(Final(i).text) : Final(i).text[k] = "*"}) = m
                 /\ m > 0 => Final(i) = Rendered(data[i], SubSeq(l, 1, m))

\* C6 witness: a feed of eight well-formed entries was rendered with five blocks.
EightEntriesFiveBlocks ==
  \E i \in Inv :
    /\ FetchedOk(i)
    /\ Usable(data[i])
    /\ Len(data[i].o.data.l) = 8
    /\ \A k \in 1..8 : WellFormed(data[i].o.data.l[k])
    /\ TitlesIn(Final(i).text) = <<"t1", "t2", "t3", "t4", "t5">>

\* the formatted change of the only block of a text
ChangeIn(text) ==
  LET a == MinOf({k \in 1..Len(text) : text[k] = "change:"})
      b == MinOf({k \in (a + 1)..Len(text) : text[k] = "\n"})
  IN SubSeq(text, a + 1, b - 1)

\* C7: _format_change(s) contains s; when s parses as a number the marker is
\* up with a leading + iff the value is > 0, down iff it is < 0, flat iff it
\* is = 0, each followed by %; otherwise the result is s.
FormatChangeSignMarker ==
  \A i \in Inv :
    (/\ FetchedOk(i)
     /\ Usable(data[i])
     /\ Len(data[i].o.data.l) = 1
     /\ WellFormed(data[i].o.data.l[1])
     /\ Final(i).kind = "message")
      => LET s == data[i].o.data.l[1].o.changepercent
             r == ChangeIn(Final(i).text)
             f == PyFloat(s)
         IN /\ IsSubSeq(s, r)
            /\ f.exc # "none" => r = s
            /\ f.exc = "none" =>
                 /\ r[Len(r)] = "%"
                 /\ r[1] \in {UP_MARK, DOWN_MARK, FLAT_MARK}
                 /\ r[1] = UP_MARK <=> (~f.nan /\ f.num > 0)
                 /\ r[1] = UP_MARK => r[3] = "+"
                 /\ r[1] = DOWN_MARK <=> (~f.nan /\ f.num < 0)
                 /\ r[1] = FLAT_MARK <=> (~f.nan /\ f.num = 0)

\* C8: when the request has not completed within the total timeout, the
\* invocation ends with the network error as its final message.
TimeoutLeadsToNetworkError ==
  \A i \in Inv :
    (Awaiting(i) /\ elapsed[i] = TIMEOUT)
      ~> (pc[i] = "done" /\ out[i] = <<Wait, NetworkMessage>>)

\* C8 witness: an invocation whose request timed out has ended with the
\* network error.
TimedOutAndAnswered ==
  \E i \in Inv :
    /\ pc[i] = "done"
    /\ outcome[i] = "timeout"
    /\ out[i] = <<Wait, NetworkMessage>>

\* C9: code 200 and an empty list under data give the "no data" text as a
\* normal message, with no header and no entry block.
EmptyDataGivesNoDataMessage ==
  \A i \in Inv :
    (FetchedOk(i) /\ Usable(data[i]) /\ data[i].o.data.l = <<>>)
      => /\ Final(i) = Message(<<NO_DATA_MSG>>)
         /\ out[i] = <<Wait, Message(<<NO_DATA_MSG>>)>>

\* C9 witness: the feed with an empty data list and a time was answered.
EmptyDataAnswered ==
  \E i \in Inv :
    /\ FetchedOk(i)
    /\ Usable(data[i])
    /\ data[i].o.data.l = <<>>
    /\ "time" \in DOMAIN data[i].o
    /\ Len(out[i]) = 2

Terminal(i) == pc[i] \in {"fetched", "done", "cancelled"}

\* C10: every invocation opens one session and issues at most one GET on it,
\* and once fetch_data has returned or propagated, however it ended, the
\* session is closed and the response released, whatever the other
\* invocations do.
OneSessionOneRequestReleased ==
  \A i \in Inv :
    /\ opened[i] <= 1
    /\ gets[i] <= opened[i]
    /\ session[i] = "open" => pc[i] \in {"get", "await_resp", "await_text", "check_status"}
    /\ resp[i].state = "open" => session[i] = "open"
    /\ Terminal(i) =>
         /\ opened[i] = 1
         /\ gets[i] = 1
         /\ session[i] = "closed"
         /\ resp[i].state # "open"

\* C10 witness: one invocation was cancelled with its response open, another
\* failed on the transport, and both sessions are closed.
CancelledAndFailedClosed ==
  \E i, j \in Inv :
    /\ pc[i] = "cancelled" /\ resp[i].state = "released" /\ session[i] = "closed"
    /\ pc[j] = "done" /\ outcome[j] = "client" /\ session[j] = "closed"

====
